---- MODULE Spec2Model ----
(***************************************************************************)
(* A state-machine model of graph/src/data/schema.rs: the subgraph schema  *)
(* (Schema), the API schema derived from it (ApiSchema), the fulltext      *)
(* directive extraction (FulltextDefinition) and the process-wide          *)
(* introspection schema (INTROSPECTION_SCHEMA).                            *)
(*                                                                         *)
(* The functions of the file are pure apart from the lazily initialised    *)
(* static.  Each pure function is an operator; a specification per group   *)
(* of functions draws the call's arguments in Init (variable input) and    *)
(* has one action per function that applies it (variable ret).  The        *)
(* static and the threads that dereference it are SpecIntrospection.       *)
(***************************************************************************)
EXTENDS Naturals, Integers, Sequences, FiniteSets, TLC

VARIABLES
    pc,             \* position of the caller: "start" before the call, then the outcome
    input,          \* the arguments of the call (a record tagged by op)
    ret,            \* what the call returned (or that it panicked)
    out,            \* the last method call on the constructed value and its result
    once,           \* state of the Once behind INTROSPECTION_SCHEMA
    introspection,  \* the value of INTROSPECTION_SCHEMA once initialised
    initRuns,       \* how many times the initialiser block of the static has run
    tpc,            \* per thread: position inside ApiSchema::object_or_interface
    tcall,          \* per thread: the ApiSchema instance and the name of the call
    tret            \* per thread: what the call returned

vars == <<pc, input, ret, out, once, introspection, initRuns, tpc, tcall, tret>>

callVars == <<pc, input, ret, out>>
staticVars == <<once, introspection, initRuns, tpc, tcall, tret>>

None == [kind |-> "None"]
Panic == [kind |-> "panic"]
NoCall == [op |-> "none"]

\* Sequences over S of length 0..n.
SeqsUpTo(S, n) == UNION {[1..k -> S] : k \in 0..n}

Range(s) == {s[i] : i \in DOMAIN s}

\* The variables of the static and its threads, at rest (no thread exists).
StaticIdle ==
    /\ once = "incomplete"
    /\ introspection = None
    /\ initRuns = 0
    /\ tpc = <<>>
    /\ tcall = <<>>
    /\ tret = <<>>

\* The variables of a single call, at rest (no call is made).
CallIdle ==
    /\ pc = "none"
    /\ input = NoCall
    /\ ret = None
    /\ out = None

\* Before the call: nothing has returned, and the static is untouched.
BeforeCall ==
    /\ pc = "start"
    /\ ret = None
    /\ out = None
    /\ StaticIdle

(***************************************************************************)
(* Import resolution: Schema::resolve_schema_references.                   *)
(*                                                                         *)
(* A SchemaReference is a number 1..NumRefs.  A schema is the sequence of  *)
(* SchemaReferences its @import directives name (imports); the store maps  *)
(* every reference to the schema it holds or to NotFound.  fetched counts  *)
(* the calls of store.input_schema per reference.                          *)
(***************************************************************************)
NumRefs == 2
MaxImports == 2

Refs == 1..NumRefs
NotFound == [kind |-> "NotFound"]
ImportLists == SeqsUpTo(Refs, MaxImports)
SchemaValues == {[kind |-> "Schema", imports |-> is] : is \in ImportLists}

\* The schemas the store holds import each reference at most once, in
\* increasing order; the schema that is resolved may import one repeatedly.
StoredSchemas ==
    {s \in SchemaValues :
        \A i, j \in DOMAIN s.imports : i < j => s.imports[i] < s.imports[j]}
Stores == [Refs -> StoredSchemas \cup {NotFound}]

EmptyMap == [r \in {} |-> None]
NoFetches == [r \in Refs |-> 0]

ImportedSchemaNotFound(ref) == [variant |-> "ImportedSchemaNotFound", ref |-> ref]

\* Schema::imported_schemas: the body is `vec![]`, whatever the document holds.
imported_schemas(self) == <<>>

\* A resolution that asks the store for every @import of the schema in turn and
\* never consults visit_log: a reference imported twice is fetched twice.
RECURSIVE FetchEach(_, _, _)
FetchEach(imports, store, acc) ==
    IF imports = <<>> THEN acc
    ELSE LET ref == Head(imports)
             got == store[ref]
             fetched == [acc.fetched EXCEPT ![ref] = @ + 1]
         IN  FetchEach(Tail(imports), store,
                 IF got = NotFound
                 THEN [acc EXCEPT !.fetched = fetched,
                                  !.errors = Append(@, ImportedSchemaNotFound(ref))]
                 ELSE [acc EXCEPT !.fetched = fetched,
                                  !.visit_log = @ \cup {ref},
                                  !.schemas = [r \in DOMAIN @ \cup {ref} |->
                                                  IF r = ref THEN got ELSE @[r]]])

resolve_import_graph_refetch(self, store, schemas, visit_log, fetched) ==
    FetchEach(self.imports, store,
        [errors |-> <<>>, schemas |-> schemas, visit_log |-> visit_log,
         fetched |-> fetched])

\* Schema::resolve_import_graph: the body is `vec![]`; it reads neither the
\* store nor the schema and leaves schemas and visit_log as they were.
resolve_import_graph(self, store, schemas, visit_log, fetched) ==
    [errors |-> <<>>, schemas |-> schemas, visit_log |-> visit_log,
     fetched |-> fetched]

\* Schema::resolve_schema_references: a fresh map and a fresh visit log, one
\* call of resolve_import_graph, and the pair (schemas, import_errors).
resolve_schema_references(self, store) ==
    LET r == resolve_import_graph(self, store, EmptyMap, {}, NoFetches)
    IN  [kind |-> "returned", schemas |-> r.schemas, import_errors |-> r.errors,
         fetched |-> r.fetched]

ResolveInputs ==
    {[op |-> "resolve", self |-> s, store |-> st] :
        s \in SchemaValues, st \in Stores}

InitResolve ==
    /\ input \in ResolveInputs
    /\ BeforeCall

ResolveSchemaReferences ==
    /\ pc = "start"
    /\ input.op = "resolve"
    /\ ret' = resolve_schema_references(input.self, input.store)
    /\ pc' = "returned"
    /\ UNCHANGED <<input, out, staticVars>>

NextResolve == ResolveSchemaReferences

SpecResolve == InitResolve /\ [][NextResolve]_vars

\* The references the traversal of section 4.3 reaches from `self`: the imports
\* of self, and the imports of every reached schema the store holds.
RECURSIVE ReachedFrom(_, _)
ReachedFrom(seen, store) ==
    LET more == UNION {Range(store[r].imports) : r \in {x \in seen : store[x] # NotFound}}
    IN  IF more \subseteq seen THEN seen ELSE ReachedFrom(seen \cup more, store)

Reached(self, store) == ReachedFrom(Range(self.imports), store)

\* C1: resolve_schema_references terminates on every import graph, cyclic ones
\* included (the call is enabled whenever it has not returned, and returns in
\* one step), and when it has returned the store was asked for each distinct
\* SchemaReference at most once.
C1_TerminatesAndFetchesEachReferenceAtMostOnce ==
    /\ (pc = "start" /\ input.op = "resolve") => ENABLED ResolveSchemaReferences
    /\ pc = "returned" => \A r \in Refs : ret.fetched[r] <= 1

\* The call has returned on a cyclic import graph: self imports 1 (twice), the
\* schema of 1 imports 2 and the schema of 2 imports 1.
C1_Witness ==
    /\ pc = "returned"
    /\ input.self.imports = <<1, 1>>
    /\ input.store[1] # NotFound /\ input.store[1].imports = <<2>>
    /\ input.store[2] # NotFound /\ input.store[2].imports = <<1>>

\* C2: when resolve_schema_references returns, the result map holds exactly
\* the reached references the store has (each with the store's schema), and
\* the error list holds one ImportedSchemaNotFound for every reached reference
\* the store does not have.
C2_ResultHoldsEveryReachedSchemaAndEveryFailure ==
    pc = "returned" =>
        LET R == Reached(input.self, input.store)
            found == {r \in R : input.store[r] # NotFound}
            missing == R \ found
        IN  /\ DOMAIN ret.schemas = found
            /\ \A r \in found : ret.schemas[r] = input.store[r]
            /\ {e.ref : e \in Range(ret.import_errors)} = missing
            /\ Len(ret.import_errors) = Cardinality(missing)
            /\ \A e \in Range(ret.import_errors) : e.variant = "ImportedSchemaNotFound"

(***************************************************************************)
(* Validation: Schema::validate and the validate_* checks.                 *)
(*                                                                         *)
(* A schema is described by the set of structural defects its document     *)
(* has, at most one per check (defects \subseteq Checks).                  *)
(***************************************************************************)
Checks ==
    {"validate_schema_type_has_no_fields", "validate_directives_on_schema_type",
     "validate_fulltext_directives", "validate_import_directives",
     "validate_imported_types", "validate_fields",
     "validate_reserved_types_usage", "validate_schema_types",
     "validate_derived_from", "validate_interface_id_type"}

\* The validate_* methods: every body is `Ok(())`, `None` or `vec![]`, so each
\* check reports no error for every schema.
validate_checks(self) == [c \in Checks |-> <<>>]

\* Schema::validate: the body is `Ok(())`; no check is called.
validate(self, schemas) == [kind |-> "Ok"]

ValidateInputs ==
    {[op |-> "validate", self |-> [defects |-> d], schemas |-> EmptyMap] :
        d \in SUBSET Checks}

InitValidate ==
    /\ input \in ValidateInputs
    /\ BeforeCall

Validate ==
    /\ pc = "start"
    /\ input.op = "validate"
    /\ ret' = validate(input.self, input.schemas)
    /\ pc' = "returned"
    /\ UNCHANGED <<input, out, staticVars>>

NextValidate == Validate

SpecValidate == InitValidate /\ [][NextValidate]_vars

\* C3: validate returns Ok(()) only for a schema without defects, and for a
\* schema with N defects, one per distinct check, Err with exactly N errors.
C3_ValidateReportsEveryDefect ==
    pc = "returned" =>
        LET n == Cardinality(input.self.defects)
        IN  /\ ret.kind = "Ok" <=> n = 0
            /\ n > 0 => (ret.kind = "Err" /\ Len(ret.errors) = n)

(***************************************************************************)
(* Type index: Schema::collect_interfaces.                                 *)
(*                                                                         *)
(* A document is a sequence of definitions; an object type carries the     *)
(* sequence of interface names of its `implements` clause.                 *)
(***************************************************************************)
MaxIndexDefs == 2

ObjectNames == {"T", "U"}
InterfaceNames == {"I", "J"}

IndexDefinitions ==
    {[kind |-> "Object", name |-> n, implements |-> is] :
        n \in ObjectNames, is \in SeqsUpTo(InterfaceNames, 1)}
    \cup {[kind |-> "Interface", name |-> n, implements |-> <<>>] : n \in InterfaceNames}

IndexDocuments == SeqsUpTo(IndexDefinitions, MaxIndexDefs)

\* Schema::collect_interfaces: the body is `todo!()`, which panics.
collect_interfaces(document) == Panic

InitInterfaces ==
    /\ input \in {[op |-> "collect_interfaces", document |-> d] : d \in IndexDocuments}
    /\ BeforeCall

CollectInterfaces ==
    /\ pc = "start"
    /\ input.op = "collect_interfaces"
    /\ ret' = collect_interfaces(input.document)
    /\ pc' = IF ret'.kind = "panic" THEN "panicked" ELSE "returned"
    /\ UNCHANGED <<input, out, staticVars>>

NextInterfaces == CollectInterfaces

SpecInterfaces == InitInterfaces /\ [][NextInterfaces]_vars

ObjectsOf(document) == {d \in Range(document) : d.kind = "Object"}
InterfacesOf(document) == {d.name : d \in {x \in Range(document) : x.kind = "Interface"}}

\* The names of the object types of `document` that implement interface i, in
\* declaration order.
RECURSIVE ImplementorsInOrder(_, _)
ImplementorsInOrder(document, i) ==
    IF document = <<>> THEN <<>>
    ELSE LET d == Head(document)
             rest == ImplementorsInOrder(Tail(document), i)
         IN  IF d.kind = "Object" /\ i \in Range(d.implements)
             THEN <<d.name>> \o rest ELSE rest

\* C7: once the call is over, collect_interfaces has either failed with a
\* validation error, exactly when some object type implements an interface the
\* document does not define, or returned two maps that are inverses of each
\* other, with the implementors of each interface in declaration order.
C7_CollectInterfacesFailsOrReturnsInverseMaps ==
    pc # "start" =>
        LET doc == input.document
            undefined == \E o \in ObjectsOf(doc) :
                             \E i \in Range(o.implements) : i \notin InterfacesOf(doc)
        IN  /\ ret.kind \in {"Err", "Ok"}
            /\ ret.kind = "Err" <=> undefined
            /\ ret.kind = "Ok" =>
                 /\ \A t \in DOMAIN ret.interfaces_for_type :
                        \A i \in Range(ret.interfaces_for_type[t]) :
                            /\ i \in DOMAIN ret.types_for_interface
                            /\ t \in Range(ret.types_for_interface[i])
                 /\ \A i \in DOMAIN ret.types_for_interface :
                        /\ ret.types_for_interface[i] = ImplementorsInOrder(doc, i)
                        /\ \A t \in Range(ret.types_for_interface[i]) :
                               /\ t \in DOMAIN ret.interfaces_for_type
                               /\ i \in Range(ret.interfaces_for_type[t])

(***************************************************************************)
(* GraphQL types and documents shared by the sections below.               *)
(*                                                                         *)
(* s::Type is NamedType(name), ListType(inner) or NonNullType(inner).  A   *)
(* document is the sequence of its definitions, each a record with a kind  *)
(* (the TypeDefinition variant) and a name.                                *)
(***************************************************************************)
NamedType(name) == [k |-> "NamedType", name |-> name]
ListType(inner) == [k |-> "ListType", inner |-> inner]
NonNullType(inner) == [k |-> "NonNullType", inner |-> inner]

\* The types over `names` with at most `depth` list/non-null wrappers.
RECURSIVE TypesOver(_, _)
TypesOver(names, depth) ==
    IF depth = 0 THEN {NamedType(n) : n \in names}
    ELSE LET inner == TypesOver(names, depth - 1)
         IN  inner \cup {ListType(t) : t \in inner} \cup {NonNullType(t) : t \in inner}

\* TypeExt::get_base_type: the name left after unwrapping every list and
\* non-null wrapper.
RECURSIVE get_base_type(_)
get_base_type(t) ==
    IF t.k = "NamedType" THEN t.name ELSE get_base_type(t.inner)

\* Iterator::find: the element of sequence s at the least of the positions
\* `hits`, as [kind |-> "Some", value |-> x], or None when there is none.
FindFirst(s, hits) ==
    IF hits = {} THEN None
    ELSE [kind |-> "Some", value |-> s[CHOOSE i \in hits : \A j \in hits : i <= j]]

\* DocumentExt::get_object_type_definitions: the object types, in document order.
get_object_type_definitions(document) ==
    SelectSeq(document, LAMBDA d : d.kind = "Object")

\* DocumentExt::get_object_type_definition: the first object type of that name.
get_object_type_definition(document, name) ==
    LET object_types == get_object_type_definitions(document)
    IN  FindFirst(object_types,
                  {i \in DOMAIN object_types : object_types[i].name = name})

\* ObjectTypeExt::field: the first field of that name.
field(object_type, name) ==
    FindFirst(object_type.fields,
              {i \in DOMAIN object_type.fields : object_type.fields[i].name = name})

(***************************************************************************)
(* Schema::id_value.                                                       *)
(*                                                                         *)
(* An entity id is a sequence of characters; scalar::Bytes::from_str reads *)
(* it as a hexadecimal literal.                                            *)
(***************************************************************************)
MaxIdLen == 4
MaxIdWrap == 1

IdChars == {"0", "a", "x"}
RawIds == SeqsUpTo(IdChars, MaxIdLen)
HexValue(c) == CASE c = "0" -> 0 [] c = "a" -> 10 [] OTHER -> -1

RECURSIVE TrimStart0x(_)
TrimStart0x(s) ==
    IF Len(s) >= 2 /\ s[1] = "0" /\ s[2] = "x"
    THEN TrimStart0x(SubSeq(s, 3, Len(s))) ELSE s

\* scalar::Bytes::from_str: the hexadecimal digits after the `0x` prefix, two
\* per byte; an odd number of digits or a character that is no digit fails.
Bytes_from_str(s) ==
    LET digits == TrimStart0x(s)
    IN  IF Len(digits) % 2 = 1 \/ \E i \in DOMAIN digits : HexValue(digits[i]) < 0
        THEN [kind |-> "Err"]
        ELSE [kind |-> "Ok",
              bytes |-> [i \in 1..(Len(digits) \div 2) |->
                            16 * HexValue(digits[2 * i - 1]) + HexValue(digits[2 * i])]]

IdBaseNames == {"ID", "String", "Bytes", "Int"}
IdFields ==
    {[name |-> "id", field_type |-> t] : t \in TypesOver(IdBaseNames, MaxIdWrap)}
    \cup {[name |-> "name", field_type |-> NamedType("String")]}
IdDefinitions ==
    {[kind |-> k, name |-> "Foo", fields |-> fs] :
        k \in {"Object", "Interface"}, fs \in SeqsUpTo(IdFields, 1)}
IdDocuments == SeqsUpTo(IdDefinitions, 1)
EntityKeys ==
    {[entity_type |-> t, entity_id |-> i] : t \in {"Foo", "Bar"}, i \in RawIds}

\* Schema::id_value.
id_value(self, key) ==
    LET object_type == get_object_type_definition(self.document, key.entity_type)
    IN  IF object_type = None
        THEN [kind |-> "Err", error |-> "unknown entity type",
              entity_type |-> key.entity_type]
        ELSE LET id == field(object_type.value, "id")
             IN  IF id = None THEN Panic     \* .unwrap() of None
                 ELSE LET base_type == get_base_type(id.value.field_type)
                      IN  CASE base_type \in {"ID", "String"} ->
                                 [kind |-> "Ok", value |-> "String", string |-> key.entity_id]
                            [] base_type = "Bytes" ->
                                 LET b == Bytes_from_str(key.entity_id)
                                 IN  IF b.kind = "Ok"
                                     THEN [kind |-> "Ok", value |-> "Bytes", bytes |-> b.bytes]
                                     ELSE [kind |-> "Err", error |-> "bytes",
                                           entity_type |-> key.entity_type]
                            [] OTHER ->
                                 [kind |-> "Err", error |-> "illegal type",
                                  entity_type |-> key.entity_type, base_type |-> base_type]

InitIdValue ==
    /\ input \in {[op |-> "id_value", self |-> [document |-> d], key |-> k] :
                     d \in IdDocuments, k \in EntityKeys}
    /\ BeforeCall

IdValue ==
    /\ pc = "start"
    /\ input.op = "id_value"
    /\ ret' = id_value(input.self, input.key)
    /\ pc' = IF ret'.kind = "panic" THEN "panicked" ELSE "returned"
    /\ UNCHANGED <<input, out, staticVars>>

NextIdValue == IdValue

SpecIdValue == InitIdValue /\ [][NextIdValue]_vars

\* The base type of the `id` field of the object type `name`, or None when
\* the document has no such object type or the type has no `id` field.
IdBaseOf(document, name) ==
    LET os == {d \in Range(document) : d.kind = "Object" /\ d.name = name}
        ids == {f \in UNION {Range(o.fields) : o \in os} : f.name = "id"}
    IN  IF ids = {} THEN None
        ELSE [kind |-> "Some", value |-> get_base_type((CHOOSE f \in ids : TRUE).field_type)]

\* C5: id_value never aborts: every lookup or type failure is an error value.
\* With base type ID or String the result is the string value equal to the raw
\* id, with Bytes it is the bytes parsed from the raw id (or an error when it
\* does not parse), and with any other base type an illegal-id-type error
\* naming the entity type and the base type.
C5_IdValueByBaseTypeNeverAborts ==
    pc # "start" =>
        LET base == IdBaseOf(input.self.document, input.key.entity_type)
        IN  /\ pc = "returned"
            /\ ret.kind \in {"Ok", "Err"}
            /\ base = None => ret.kind = "Err"
            /\ base # None =>
                 CASE base.value \in {"ID", "String"} ->
                        ret = [kind |-> "Ok", value |-> "String",
                               string |-> input.key.entity_id]
                   [] base.value = "Bytes" ->
                        LET b == Bytes_from_str(input.key.entity_id)
                        IN  IF b.kind = "Ok"
                            THEN ret = [kind |-> "Ok", value |-> "Bytes", bytes |-> b.bytes]
                            ELSE ret.kind = "Err"
                   [] OTHER ->
                        /\ ret.kind = "Err"
                        /\ ret.error = "illegal type"
                        /\ ret.entity_type = input.key.entity_type
                        /\ ret.base_type = base.value

(***************************************************************************)
(* ApiSchema: from_api_schema, object_type, get_named_type, is_input_type. *)
(*                                                                         *)
(* Every definition of a document records its position, so that two        *)
(* definitions of one name and kind stay distinct.                         *)
(***************************************************************************)
MaxApiDefs == 2
MaxWrap == 2

TypeKinds == {"Scalar", "Object", "Interface", "Union", "Enum", "InputObject"}
ApiNames == {"Query", "Subscription", "Token"}
ApiDocuments ==
    UNION {{[i \in 1..k |-> [kind |-> ks[i], name |-> ns[i], position |-> i]] :
               ks \in [1..k -> TypeKinds], ns \in [1..k -> ApiNames]} :
           k \in 0..MaxApiDefs}
ApiTypes == TypesOver(ApiNames, MaxWrap)

\* add_introspection_schema: the body is `{}`; the document is left as it is.
add_introspection_schema(schema) == schema

\* DocumentExt::get_root_query_type: the first object type named Query.
get_root_query_type(document) == get_object_type_definition(document, "Query")

\* DocumentExt::get_root_subscription_type: the first object type named Subscription.
get_root_subscription_type(document) ==
    get_object_type_definition(document, "Subscription")

\* HashMap::from_iter over (name, definition) pairs: a later pair replaces an
\* earlier one of the same name.
HashMapFromIter(defs) ==
    [n \in {d.name : d \in Range(defs)} |->
        defs[CHOOSE i \in DOMAIN defs :
                 /\ defs[i].name = n
                 /\ \A j \in DOMAIN defs : defs[j].name = n => j <= i]]

\* A construction that caches the root types only.
from_api_schema_roots_only(api_schema) ==
    LET document == add_introspection_schema(api_schema.document)
        query_type == get_root_query_type(document)
        subscription_type == get_root_subscription_type(document)
    IN  IF query_type = None
        THEN [kind |-> "Err", error |-> "no root Query in the schema"]
        ELSE [kind |-> "Ok",
              value |-> [schema |-> [document |-> document],
                         query_type |-> query_type.value,
                         subscription_type |-> subscription_type,
                         object_types |->
                             HashMapFromIter(
                                 SelectSeq(get_object_type_definitions(document),
                                     LAMBDA d : d.name \in {"Query", "Subscription"}))]]

\* ApiSchema::from_api_schema.
from_api_schema(api_schema) ==
    LET document == add_introspection_schema(api_schema.document)
        query_type == get_root_query_type(document)
        subscription_type == get_root_subscription_type(document)
    IN  IF query_type = None
        THEN [kind |-> "Err", error |-> "no root Query in the schema"]
        ELSE [kind |-> "Ok",
              value |-> [schema |-> [document |-> document],
                         query_type |-> query_type.value,
                         subscription_type |-> subscription_type,
                         object_types |->
                             HashMapFromIter(get_object_type_definitions(document))]]

\* ApiSchema::object_type: the cached definition of that name; `expect`
\* panics when the cache has none.
object_type(self, obj_type) ==
    IF obj_type.name \in DOMAIN self.object_types
    THEN [kind |-> "Some", value |-> self.object_types[obj_type.name]]
    ELSE Panic

\* DocumentExt::get_named_type: the first type definition of that name.
DocumentExt_get_named_type(document, name) ==
    FindFirst(document,
              {i \in DOMAIN document :
                  document[i].kind \in TypeKinds /\ document[i].name = name})

\* ApiSchema::get_named_type.
get_named_type(self, name) == DocumentExt_get_named_type(self.schema.document, name)

\* An is_input_type that does not look inside a list.
RECURSIVE is_input_type_no_list(_, _)
is_input_type_no_list(self, t) ==
    CASE t.k = "NamedType" ->
           LET named_type == get_named_type(self, t.name)
           IN  IF named_type = None THEN FALSE
               ELSE named_type.value.kind \in {"Scalar", "Enum", "InputObject"}
      [] t.k = "ListType" -> FALSE
      [] t.k = "NonNullType" -> is_input_type_no_list(self, t.inner)

\* ApiSchema::is_input_type.
RECURSIVE is_input_type(_, _)
is_input_type(self, t) ==
    CASE t.k = "NamedType" ->
           LET named_type == get_named_type(self, t.name)
           IN  IF named_type = None THEN FALSE
               ELSE named_type.value.kind \in {"Scalar", "Enum", "InputObject"}
      [] t.k = "ListType" -> is_input_type(self, t.inner)
      [] t.k = "NonNullType" -> is_input_type(self, t.inner)

InitApi ==
    /\ input \in {[op |-> "from_api_schema", api_schema |-> [document |-> d]] :
                     d \in ApiDocuments}
    /\ BeforeCall

FromApiSchema ==
    /\ pc = "start"
    /\ input.op = "from_api_schema"
    /\ ret' = from_api_schema(input.api_schema)
    /\ pc' = IF ret'.kind = "Ok" THEN "constructed" ELSE "failed"
    /\ UNCHANGED <<input, out, staticVars>>

\* A call of object_type on the constructed ApiSchema, with an object type of
\* its schema.
ObjectType ==
    /\ pc = "constructed"
    /\ out = None
    /\ \E obj_type \in Range(get_object_type_definitions(ret.value.schema.document)) :
           out' = [op |-> "object_type", arg |-> obj_type,
                   result |-> object_type(ret.value, obj_type)]
    /\ UNCHANGED <<pc, input, ret, staticVars>>

\* A call of is_input_type on the constructed ApiSchema.
IsInputType ==
    /\ pc = "constructed"
    /\ out = None
    /\ \E t \in ApiTypes :
           out' = [op |-> "is_input_type", arg |-> t,
                   result |-> is_input_type(ret.value, t)]
    /\ UNCHANGED <<pc, input, ret, staticVars>>

NextApi == FromApiSchema \/ ObjectType \/ IsInputType

SpecApi == InitApi /\ [][NextApi]_vars

RootObjects(document, name) ==
    {d \in Range(document) : d.kind = "Object" /\ d.name = name}

\* C8: from_api_schema fails, and yields no ApiSchema, when the document has
\* no root Query object type after the introspection types are merged in.
\* When it succeeds, query_type is a root Query type of the document,
\* subscription_type is present exactly when the document has a root
\* Subscription type, the cache has an entry (an object type of that name) for
\* every object type of the document, and object_type(t) returns the cached
\* definition for every object type t of the schema.
C8_FromApiSchemaRootsAndCache ==
    pc # "start" =>
        LET document == add_introspection_schema(input.api_schema.document)
        IN  /\ RootObjects(document, "Query") = {} =>
                  (pc = "failed" /\ ret.kind = "Err")
            /\ RootObjects(document, "Query") # {} =>
                  /\ pc = "constructed"
                  /\ ret.kind = "Ok"
                  /\ ret.value.query_type \in RootObjects(document, "Query")
                  /\ ret.value.subscription_type # None
                         <=> RootObjects(document, "Subscription") # {}
                  /\ ret.value.subscription_type # None =>
                         ret.value.subscription_type.value
                             \in RootObjects(document, "Subscription")
                  /\ \A d \in Range(document) : d.kind = "Object" =>
                         /\ d.name \in DOMAIN ret.value.object_types
                         /\ ret.value.object_types[d.name] \in RootObjects(document, d.name)
                  /\ (out # None /\ out.op = "object_type") =>
                         /\ out.result.kind = "Some"
                         /\ out.result.value = ret.value.object_types[out.arg.name]

\* An ApiSchema was built from a document with a Query and a Token object
\* type, and object_type was called with the Token type.
C8_Witness ==
    /\ pc = "constructed"
    /\ input.api_schema.document =
           <<[kind |-> "Object", name |-> "Query", position |-> 1],
             [kind |-> "Object", name |-> "Token", position |-> 2]>>
    /\ out # None /\ out.op = "object_type" /\ out.arg.name = "Token"

\* C9: is_input_type(t) is true exactly when the base type name of t, after
\* stripping every list and non-null wrapper, resolves in the wrapped document
\* to a scalar, enum or input-object definition; wrapping t in a list or a
\* non-null does not change the result.
C9_IsInputTypeByBaseDefinition ==
    (out # None /\ out.op = "is_input_type") =>
        LET document == ret.value.schema.document
            base == get_base_type(out.arg)
            named == {i \in DOMAIN document :
                         document[i].kind \in TypeKinds /\ document[i].name = base}
            resolved == document[CHOOSE i \in named : \A j \in named : i <= j]
        IN  /\ out.result <=>
                  (named # {} /\ resolved.kind \in {"Scalar", "Enum", "InputObject"})
            /\ is_input_type(ret.value, ListType(out.arg)) = out.result
            /\ is_input_type(ret.value, NonNullType(out.arg)) = out.result

\* is_input_type was called with [Token!] on a schema whose Token is an enum
\* and answered true.
C9_Witness ==
    /\ out # None /\ out.op = "is_input_type"
    /\ out.arg = ListType(NonNullType(NamedType("Token")))
    /\ \E i \in DOMAIN ret.value.schema.document :
           /\ ret.value.schema.document[i].kind = "Enum"
           /\ ret.value.schema.document[i].name = "Token"
    /\ out.result = TRUE

(***************************************************************************)
(* Fulltext directives: impl From<&s::Directive> for FulltextDefinition    *)
(* and Schema::name_argument_value_from_directive.                         *)
(*                                                                         *)
(* A q::Value is a string, an enum, a list or an object; a directive is    *)
(* the map from the names of its arguments to their values.                *)
(***************************************************************************)
MaxFulltextFields == 2

VString(s) == [t |-> "String", s |-> s]
VEnum(e) == [t |-> "Enum", e |-> e]
VList(items) == [t |-> "List", items |-> items]
VObject(map) == [t |-> "Object", map |-> map]
Some(v) == [kind |-> "Some", value |-> v]

\* The object {key: value}.
Obj1(key, value) == [k \in {key} |-> value]

FieldValues ==
    {VString("title"), VObject(EmptyMap), VObject(Obj1("name", VEnum("title"))),
     VObject(Obj1("name", VString("title"))), VObject(Obj1("name", VString("body")))}
IncludedEntities ==
    {VString("Entity"), VObject(EmptyMap), VObject(Obj1("fields", VString("title")))}
    \cup {VObject(Obj1("fields", VList(fs))) : fs \in SeqsUpTo(FieldValues, MaxFulltextFields)}
IncludeValues ==
    {VString("Entity"), VList(<<>>)}
    \cup {VList(<<e>>) : e \in IncludedEntities}
    \cup {VList(<<e, VString("Entity")>>) : e \in IncludedEntities}
NameValues == {VString("search"), VEnum("search")}
AlgorithmValues ==
    {VEnum("rank"), VEnum("proximityRank"), VEnum("fastrank"), VString("rank")}

Absent == [t |-> "Absent"]

\* The directive with the arguments name, algorithm and include, each left out
\* when it is Absent.
Directive(name, algorithm, include) ==
    LET given == [k \in {"name", "algorithm", "include"} |->
                     CASE k = "name" -> name
                       [] k = "algorithm" -> algorithm
                       [] k = "include" -> include]
    IN  [k \in {x \in DOMAIN given : given[x] # Absent} |-> given[k]]

\* The @fulltext directives: every argument either absent or one of its values.
FulltextDirectives ==
    {Directive(n, a, i) :
        n \in NameValues \cup {Absent},
        a \in AlgorithmValues \cup {Absent},
        i \in IncludeValues \cup {Absent}}

\* DirectiveExt::argument: the value of the argument of that name, if any.
argument(directive, name) ==
    IF name \in DOMAIN directive THEN Some(directive[name]) ELSE None

\* ValueExt::as_str, as_enum, as_list, as_object: the payload of a value of
\* that variant, None for a value of another variant.
as_str(value) == IF value.t = "String" THEN Some(value.s) ELSE None
as_enum(value) == IF value.t = "Enum" THEN Some(value.e) ELSE None
as_list(value) == IF value.t = "List" THEN Some(value.items) ELSE None
as_object(value) == IF value.t = "Object" THEN Some(value.map) ELSE None

\* BTreeMap::get.
get(map, key) == IF key \in DOMAIN map THEN Some(map[key]) ELSE None

\* A conversion that falls back to Rank for an algorithm it does not know.
FulltextAlgorithm_try_from_lenient(algorithm) ==
    CASE algorithm = "proximityRank" -> [kind |-> "Ok", value |-> "ProximityRank"]
      [] OTHER -> [kind |-> "Ok", value |-> "Rank"]

\* impl TryFrom<&str> for FulltextAlgorithm.
FulltextAlgorithm_try_from(algorithm) ==
    CASE algorithm = "rank" -> [kind |-> "Ok", value |-> "Rank"]
      [] algorithm = "proximityRank" -> [kind |-> "Ok", value |-> "ProximityRank"]
      [] OTHER -> [kind |-> "Err", invalid |-> algorithm,
                   valid |-> <<"rank", "proximityRank">>]

\* The `name` of one entry of `fields`: .as_object().unwrap().get("name")
\* .unwrap().as_str().unwrap(); None stands for an unwrap of None.
included_field_name(field_value) ==
    LET object == as_object(field_value)
    IN  IF object = None THEN None
        ELSE LET name == get(object.value, "name")
             IN  IF name = None THEN None ELSE as_str(name.value)

\* impl From<&s::Directive> for FulltextDefinition: every unwrap() of a None
\* or an Err panics.
FulltextDefinition_from(directive) ==
    LET name == argument(directive, "name")
        algorithm == argument(directive, "algorithm")
        include == argument(directive, "include")
    IN  IF name = None \/ as_str(name.value) = None THEN Panic
        ELSE IF algorithm = None \/ as_enum(algorithm.value) = None THEN Panic
        ELSE IF FulltextAlgorithm_try_from(as_enum(algorithm.value).value).kind = "Err"
             THEN Panic
        ELSE IF include = None \/ as_list(include.value) = None THEN Panic
        ELSE LET included_entity_list == as_list(include.value).value
             IN  IF included_entity_list = <<>> THEN Panic   \* first().unwrap()
                 ELSE LET included_entity == as_object(included_entity_list[1])
                      IN  IF included_entity = None THEN Panic
                          ELSE LET fields == get(included_entity.value, "fields")
                               IN  IF fields = None \/ as_list(fields.value) = None
                                   THEN Panic
                                   ELSE LET values == as_list(fields.value).value
                                        IN  IF \E i \in DOMAIN values :
                                                   included_field_name(values[i]) = None
                                            THEN Panic
                                            ELSE [kind |-> "Ok",
                                                  value |->
                                                    [config |->
                                                       [language |-> "()",
                                                        algorithm |->
                                                          FulltextAlgorithm_try_from(
                                                            as_enum(algorithm.value).value).value],
                                                     included_fields |->
                                                       {included_field_name(values[i]).value :
                                                           i \in DOMAIN values},
                                                     name |-> as_str(name.value).value]]

\* Schema::name_argument_value_from_directive: `expect` panics without a
\* `name` argument.
name_argument_value_from_directive(directive) ==
    LET name == argument(directive, "name")
    IN  IF name = None THEN Panic ELSE [kind |-> "Ok", value |-> name.value]

InitFulltext ==
    /\ input \in {[op |-> o, directive |-> d] :
                     o \in {"FulltextDefinition::from", "name_argument_value_from_directive"},
                     d \in FulltextDirectives}
    /\ BeforeCall

FulltextDefinitionFrom ==
    /\ pc = "start"
    /\ input.op = "FulltextDefinition::from"
    /\ ret' = FulltextDefinition_from(input.directive)
    /\ pc' = IF ret'.kind = "panic" THEN "panicked" ELSE "returned"
    /\ UNCHANGED <<input, out, staticVars>>

NameArgumentValueFromDirective ==
    /\ pc = "start"
    /\ input.op = "name_argument_value_from_directive"
    /\ ret' = name_argument_value_from_directive(input.directive)
    /\ pc' = IF ret'.kind = "panic" THEN "panicked" ELSE "returned"
    /\ UNCHANGED <<input, out, staticVars>>

NextFulltext == FulltextDefinitionFrom \/ NameArgumentValueFromDirective

SpecFulltext == InitFulltext /\ [][NextFulltext]_vars

\* A field entry of the shape {name: "<string>"}.
WellFormedField(v) ==
    /\ v.t = "Object"
    /\ "name" \in DOMAIN v.map
    /\ v.map["name"].t = "String"

\* A directive of the shape validation accepts: a string `name`, an enum
\* `algorithm` that is rank or proximityRank, and an `include` list whose
\* first entry is an object with a `fields` list of well-formed field entries.
WellFormedFulltext(d) ==
    /\ "name" \in DOMAIN d /\ d["name"].t = "String"
    /\ "algorithm" \in DOMAIN d /\ d["algorithm"].t = "Enum"
    /\ d["algorithm"].e \in {"rank", "proximityRank"}
    /\ "include" \in DOMAIN d /\ d["include"].t = "List"
    /\ d["include"].items # <<>>
    /\ LET e == d["include"].items[1]
       IN  /\ e.t = "Object"
           /\ "fields" \in DOMAIN e.map
           /\ e.map["fields"].t = "List"
           /\ \A i \in DOMAIN e.map["fields"].items :
                  WellFormedField(e.map["fields"].items[i])

\* C10 as stated: extraction never aborts; for a directive with a missing or
\* malformed name, algorithm or include argument it returns a typed failure.
C10_ExtractionReturnsTypedFailure ==
    (pc # "start" /\ ~WellFormedFulltext(input.directive)) =>
        (pc = "returned" /\ ret.kind = "Err")

\* C10 as amended: extraction relies on the directive having passed
\* validation.  FulltextDefinition::from returns the definition (name,
\* algorithm, the field names of the first included entity) exactly for a
\* well-formed directive and panics for every other one;
\* name_argument_value_from_directive returns the `name` value when the
\* argument is there and panics when it is not.  Neither returns a failure.
C10_ExtractionAssumesValidatedDirective ==
    pc # "start" =>
        LET d == input.directive
        IN  /\ ret.kind \in {"Ok", "panic"}
            /\ input.op = "FulltextDefinition::from" =>
                 /\ ret.kind = "panic" <=> ~WellFormedFulltext(d)
                 /\ ret.kind = "Ok" =>
                      /\ ret.value.name = d["name"].s
                      /\ ret.value.config.algorithm =
                             (IF d["algorithm"].e = "rank" THEN "Rank" ELSE "ProximityRank")
                      /\ ret.value.included_fields =
                             {f.map["name"].s :
                                 f \in Range(d["include"].items[1].map["fields"].items)}
            /\ input.op = "name_argument_value_from_directive" =>
                 /\ ret.kind = "panic" <=> "name" \notin DOMAIN d
                 /\ ret.kind = "Ok" => ret.value = d["name"]

\* FulltextDefinition::from was given a directive whose algorithm is the enum
\* fastrank, with a well-formed name and include, and panicked.
C10_Witness ==
    /\ pc = "panicked"
    /\ input.op = "FulltextDefinition::from"
    /\ DOMAIN input.directive = {"name", "algorithm", "include"}
    /\ input.directive["name"] = VString("search")
    /\ input.directive["algorithm"] = VEnum("fastrank")
    /\ input.directive["include"] =
           VList(<<VObject(Obj1("fields", VList(<<VObject(Obj1("name", VString("title")))>>)))>>)

(***************************************************************************)
(* The introspection schema: the lazy static INTROSPECTION_SCHEMA and      *)
(* ApiSchema::object_or_interface, called by several threads.              *)
(*                                                                         *)
(* A name is the sequence of its characters.  lazy_static! guards the      *)
(* initialiser block with a Once: the first thread to dereference the      *)
(* static runs the block, a thread that dereferences it meanwhile waits,   *)
(* and a block that panics poisons the Once for every later dereference.   *)
(***************************************************************************)
NumThreads == 2

Threads == 1..NumThreads

Name__Type == <<"_", "_", "T", "y", "p", "e">>
NameToken == <<"T", "o", "k", "e", "n">>
NameQuery == <<"Q", "u", "e", "r", "y">>
LookupNames == {Name__Type, NameToken}

\* str::starts_with.
starts_with(name, prefix) ==
    /\ Len(name) >= Len(prefix)
    /\ SubSeq(name, 1, Len(prefix)) = prefix

DocDef(kind, name) == [kind |-> kind, name |-> name, source |-> "document"]

\* The documents of the ApiSchema instances: a root Query type, and possibly
\* a type named Token or __Type of the document's own.
InstanceDocuments ==
    {<<DocDef("Object", NameQuery)>>}
    \cup {<<DocDef("Object", NameQuery), DocDef(k, n)>> :
             k \in {"Object", "Interface", "Scalar"}, n \in LookupNames}

\* DocumentExt::object_or_interface: the first type definition of that name,
\* when it is an object or an interface type.
Document_object_or_interface(document, name) ==
    LET named_type == DocumentExt_get_named_type(document, name)
    IN  IF named_type # None /\ named_type.value.kind \in {"Object", "Interface"}
        THEN named_type
        ELSE None

\* parse_schema(""): the initialiser block parses the empty text.  What the
\* external parser makes of it is either a document without definitions or a
\* parse error.
ParseEmptySchema == {[kind |-> "Ok", document |-> <<>>], [kind |-> "Err"]}

\* Once::call_once without mutual exclusion: a thread runs the block also
\* while another thread is running it.
MayRunInitialiser_unguarded(state) == state \in {"incomplete", "running"}

\* Once::call_once behind lazy_static!: the block is run by the thread that
\* finds the Once incomplete.
MayRunInitialiser(state) == state = "incomplete"

InitIntrospection ==
    /\ CallIdle
    /\ once = "incomplete"
    /\ introspection = None
    /\ initRuns = 0
    /\ tpc = [t \in Threads |-> "idle"]
    /\ tcall = [t \in Threads |-> NoCall]
    /\ tret = [t \in Threads |-> None]

\* ApiSchema::object_or_interface, up to the dereference of the static: a name
\* without the `__` prefix is looked up in the wrapped document.
ObjectOrInterface(t) ==
    /\ tpc[t] = "idle"
    /\ \E document \in InstanceDocuments, name \in LookupNames :
           /\ tcall' = [tcall EXCEPT ![t] =
                           [op |-> "object_or_interface", document |-> document,
                            name |-> name]]
           /\ IF starts_with(name, <<"_", "_">>)
              THEN /\ tpc' = [tpc EXCEPT ![t] = "deref"]
                   /\ tret' = [tret EXCEPT ![t] = None]
              ELSE /\ tpc' = [tpc EXCEPT ![t] = "done"]
                   /\ tret' = [tret EXCEPT ![t] =
                                  [result |-> Document_object_or_interface(document, name),
                                   read |-> None]]
    /\ UNCHANGED <<once, introspection, initRuns, callVars>>

\* The dereference finds the Once not complete and starts the initialiser block.
BeginInitialise(t) ==
    /\ tpc[t] = "deref"
    /\ once # "complete" /\ once # "poisoned"
    /\ MayRunInitialiser(once)
    /\ once' = "running"
    /\ initRuns' = initRuns + 1
    /\ tpc' = [tpc EXCEPT ![t] = "init"]
    /\ UNCHANGED <<introspection, tcall, tret, callVars>>

\* The initialiser block ends: parse_schema(schema).expect(..) either yields
\* the document, which becomes the value of the static, or panics.
EndInitialise(t) ==
    /\ tpc[t] = "init"
    /\ \E parsed \in ParseEmptySchema :
           IF parsed.kind = "Ok"
           THEN /\ introspection' = Some(parsed.document)
                /\ once' = "complete"
                /\ tpc' = [tpc EXCEPT ![t] = "deref"]
           ELSE /\ once' = "poisoned"
                /\ tpc' = [tpc EXCEPT ![t] = "panicked"]
                /\ UNCHANGED introspection
    /\ UNCHANGED <<initRuns, tcall, tret, callVars>>

\* The dereference finds the Once complete: INTROSPECTION_SCHEMA
\* .object_or_interface(name) on the value of the static.
ReadIntrospection(t) ==
    /\ tpc[t] = "deref"
    /\ once = "complete"
    /\ tret' = [tret EXCEPT ![t] =
                   [result |-> Document_object_or_interface(introspection.value,
                                                            tcall[t].name),
                    read |-> introspection]]
    /\ tpc' = [tpc EXCEPT ![t] = "done"]
    /\ UNCHANGED <<once, introspection, initRuns, tcall, callVars>>

\* The dereference finds the Once poisoned and panics.
DerefPoisoned(t) ==
    /\ tpc[t] = "deref"
    /\ once = "poisoned"
    /\ tpc' = [tpc EXCEPT ![t] = "panicked"]
    /\ UNCHANGED <<once, introspection, initRuns, tcall, tret, callVars>>

\* The caller takes the result; the thread is free for its next call.
Return(t) ==
    /\ tpc[t] = "done"
    /\ tpc' = [tpc EXCEPT ![t] = "idle"]
    /\ UNCHANGED <<once, introspection, initRuns, tcall, tret, callVars>>

NextIntrospection ==
    \E t \in Threads :
        \/ ObjectOrInterface(t)
        \/ BeginInitialise(t)
        \/ EndInitialise(t)
        \/ ReadIntrospection(t)
        \/ DerefPoisoned(t)
        \/ Return(t)

SpecIntrospection == InitIntrospection /\ [][NextIntrospection]_vars

IsIntrospectionCall(t) ==
    tcall[t] # NoCall /\ starts_with(tcall[t].name, <<"_", "_">>)

\* C4: the initialiser of the introspection schema runs at most once, however
\* the threads interleave; it runs lazily, only when a thread dereferences the
\* static in a call with a `__` name; the value, once set, never changes; and
\* every call that read the static read that one value.
C4_IntrospectionInitialisedOnce ==
    /\ [](initRuns <= 1)
    /\ [](initRuns = 0 => (once = "incomplete" /\ introspection = None))
    /\ [](\A t \in Threads :
             (tpc[t] = "done" /\ IsIntrospectionCall(t)) =>
                 (tret[t].read # None /\ tret[t].read = introspection))
    /\ [][initRuns' # initRuns =>
             \E t \in Threads : tpc[t] = "deref" /\ IsIntrospectionCall(t)]_vars
    /\ [][introspection # None => introspection' = introspection]_vars

\* Two threads have each completed a call with a `__` name, after exactly one
\* run of the initialiser.
C4_Witness ==
    /\ initRuns = 1
    /\ once = "complete"
    /\ \A t \in {1, 2} : tpc[t] = "done" /\ IsIntrospectionCall(t)
    /\ tcall[1].document # tcall[2].document

\* C6: a call with a name that starts with `__` is answered from the
\* introspection type system, whatever the wrapped document holds, and __Type
\* resolves to the introspection definition of that type; every other name
\* is answered from the wrapped document only.
C6_IntrospectionNamesResolveAgainstIntrospectionSchema ==
    \A t \in Threads :
        (tcall[t] # NoCall /\ tpc[t] \in {"done", "panicked"}) =>
            IF starts_with(tcall[t].name, <<"_", "_">>)
            THEN /\ tpc[t] = "done"
                 /\ tret[t].read # None
                 /\ tcall[t].name = Name__Type =>
                      /\ tret[t].result.kind = "Some"
                      /\ tret[t].result.value.name = Name__Type
                      /\ tret[t].result.value.source = "introspection.graphql"
            ELSE /\ tpc[t] = "done"
                 /\ tret[t].result =
                        Document_object_or_interface(tcall[t].document, tcall[t].name)

====
